---------------------------- MODULE Spec2Model ----------------------------
(***************************************************************************)
(* Model of the mirror-box service worker (src/sw.js): the cache policy    *)
(* of its install, activate, fetch, sync and message listeners and of      *)
(* updateCache, over a CacheStorage whose namespaces are kept in creation  *)
(* order.  Every asynchronous boundary of the source (caches.open,         *)
(* cache.addAll, cache.put, caches.keys, caches.delete, caches.match,      *)
(* fetch) is one step; the network and the store may fail at each.         *)
(***************************************************************************)
EXTENDS Integers, Sequences, FiniteSets, TLC

(***************************************************************************)
(* Bounds of the model.                                                    *)
(***************************************************************************)
\* number of events dispatched that change the worker's state (install,
\* fetch, sync 'update-cache', and the three commands of the message channel)
MaxEvents == 3
\* number of fetch events that may be in flight together
NFetch == 2
\* number of entries of the seed asset list that are modelled
NSeed == 3

(***************************************************************************)
(* Constants of the program.                                               *)
(***************************************************************************)
CACHE_VERSION == "1.0.1"
CACHE_NAME == "mirror-therapy-v1.0.1"
RUNTIME_CACHE == "runtime-cache"

\* URLs are sequences of tokens; String.includes is token containment.
Root == <<"./">>
IndexHtml == <<"./", "index.html">>
Manifest == <<"./", "manifest.json">>
Icon == <<"./", "FNT512.png">>
IconTransparent == <<"./", "FNT512-transparent.png">>

SeedAssetList == <<Root, IndexHtml, Manifest, Icon, IconTransparent>>

urlsToCache == SubSeq(SeedAssetList, 1, NSeed)

SeedUrls == {urlsToCache[i] : i \in 1..Len(urlsToCache)}

\* namespaces left behind by earlier versions of the worker
StaleNames == {"mirror-therapy-v1.0.0", "old-junk"}

(***************************************************************************)
(* Requests a page may issue: URL and destination (resource kind).         *)
(***************************************************************************)
AppJs == <<"./", "app.js">>
StyleCss == <<"./", "style.css">>
DataJson == <<"./", "data.json">>
BlobUrl == <<"blob:", "./", "stream">>
MediaDevicesUrl == <<"./", "mediaDevices">>
GetUserMediaUrl == <<"./", "getUserMedia">>

Requests ==
  { [url |-> Root, destination |-> "document"],
    [url |-> IndexHtml, destination |-> "document"],
    [url |-> AppJs, destination |-> "script"],
    [url |-> StyleCss, destination |-> "style"],
    [url |-> Icon, destination |-> "image"],
    [url |-> DataJson, destination |-> ""],
    [url |-> BlobUrl, destination |-> "image"],
    [url |-> MediaDevicesUrl, destination |-> "script"],
    [url |-> GetUserMediaUrl, destination |-> "document"] }

NoRequest == [url |-> <<>>, destination |-> ""]

includes(url, token) == \E i \in 1..Len(url) : url[i] = token

(***************************************************************************)
(* Responses.  by is the event whose fetch produced the response (0 for    *)
(* entries stored before this worker was constructed), so two responses    *)
(* for one URL are the same object only if they have the same by.          *)
(***************************************************************************)
NetShapes ==
  { [status |-> 200, type |-> "basic"],
    [status |-> 404, type |-> "basic"],
    [status |-> 200, type |-> "cors"],
    [status |-> 0, type |-> "opaque"] }

NetResponse(shape, id) ==
  [status |-> shape.status, type |-> shape.type, ctype |-> "server", by |-> id]

NoResponse == [status |-> 0, type |-> "none", ctype |-> "none", by |-> 0]

OldResponse == [status |-> 200, type |-> "basic", ctype |-> "server", by |-> 0]

\* new Response('...', {status: 503, headers: {'Content-Type': 'text/plain; charset=utf-8'}})
OfflineResponse ==
  [status |-> 503, type |-> "default", ctype |-> "text/plain", by |-> 0]

\* Response.ok: status in the range 200..299
IsOk(r) == r.status >= 200 /\ r.status <= 299

(***************************************************************************)
(* CacheStorage: a sequence of namespaces in creation order, each a name   *)
(* and a function from the URLs it holds to responses.                     *)
(***************************************************************************)
NoEntries == [u \in {} |-> NoResponse]

OldEntries == [u \in {IndexHtml} |-> OldResponse]

Names(cs) == {cs[i].name : i \in 1..Len(cs)}

IndexOf(cs, name) == CHOOSE i \in 1..Len(cs) : cs[i].name = name

EntriesOf(cs, name) == cs[IndexOf(cs, name)].entries

\* caches.open(name): creates the namespace if it does not exist
CachesOpen(cs, name) ==
  IF name \in Names(cs) THEN cs
  ELSE Append(cs, [name |-> name, entries |-> NoEntries])

\* caches.delete(name)
CachesDelete(cs, name) == SelectSeq(cs, LAMBDA c : c.name # name)

\* a put that keeps the entry the namespace already holds for the request
CachePutIfAbsent(cs, name, url, resp) ==
  [i \in 1..Len(cs) |->
     IF cs[i].name = name /\ url \notin DOMAIN cs[i].entries
     THEN [cs[i] EXCEPT !.entries =
             [u \in (DOMAIN cs[i].entries) \cup {url} |->
                IF u = url THEN resp ELSE cs[i].entries[u]]]
     ELSE cs[i]]

\* cache.put(request, response) on the namespace called name
CachePut(cs, name, url, resp) ==
  [i \in 1..Len(cs) |->
     IF cs[i].name = name
     THEN [cs[i] EXCEPT !.entries =
             [u \in (DOMAIN cs[i].entries) \cup {url} |->
                IF u = url THEN resp ELSE cs[i].entries[u]]]
     ELSE cs[i]]

\* a put through a handle reaches the store only while the namespace the
\* handle was opened on is still the one registered under its name
PutVia(cs, handle, name, url, resp) ==
  IF handle = "live" THEN CachePut(cs, name, url, resp) ELSE cs

\* the lookup made in the seed cache only
HoldersInSeedCache(cs, url) ==
  {i \in 1..Len(cs) : cs[i].name = CACHE_NAME /\ url \in DOMAIN cs[i].entries}

\* caches.match(url): the first namespace, in creation order, that holds url
Holders(cs, url) == {i \in 1..Len(cs) : url \in DOMAIN cs[i].entries}

CachesHas(cs, url) == Holders(cs, url) # {}

CachesMatch(cs, url) ==
  LET i == CHOOSE k \in Holders(cs, url) : \A j \in Holders(cs, url) : k <= j
  IN cs[i].entries[url]

(***************************************************************************)
(* The network: a fetch either fails (rejects) or answers with a shape.    *)
(***************************************************************************)
NetError == [status |-> 0, type |-> "error"]

NetOutcomes == NetShapes \cup {NetError}

\* what the network may answer for a URL: a same-origin URL is answered with
\* a basic response, unless the server redirects it to another origin, which
\* yields a cors response (manifest.json and app.js here) or, for a no-cors
\* request such as a script's, an opaque one (app.js)
Serves(url) ==
  IF url = AppJs THEN NetOutcomes
  ELSE IF url = Manifest THEN {o \in NetOutcomes : o.type # "opaque"}
  ELSE {o \in NetOutcomes : o.type \in {"basic", "error"}}

SeedOutcomes ==
  {outs \in [SeedUrls -> NetOutcomes] : \A u \in SeedUrls : outs[u] \in Serves(u)}

(***************************************************************************)
(* State.                                                                  *)
(***************************************************************************)
VARIABLES
  caches,     \* the CacheStorage
  nEvents,    \* state-changing events dispatched so far
  install,    \* the install listener's promise chain
  activate,   \* the activate listener's promise chain
  fetches,    \* the fetch listener's promise chains, one per slot
  refresh,    \* the running updateCache() call
  clear,      \* the CLEAR_CACHE promise chain of the message listener
  skipped     \* self.skipWaiting() has been called

vars == <<caches, nEvents, install, activate, fetches, refresh, clear, skipped>>

FetchSlots == 1..NFetch

IdleInstall ==
  [pc |-> "idle", id |-> 0, handle |-> "none", failed |-> FALSE,
   stored |-> FALSE, logged |-> FALSE, outcome |-> "pending"]

IdleActivate ==
  [pc |-> "idle", snapshot |-> {}, pending |-> {}, failed |-> FALSE,
   claimed |-> FALSE, outcome |-> "pending"]

IdleFetch ==
  [pc |-> "idle", id |-> 0, req |-> NoRequest, net |-> NetError,
   kind |-> "none", resp |-> NoResponse, write |-> "none",
   handle |-> "none", logged |-> FALSE, after |-> {}]

IdleRefresh ==
  [pc |-> "idle", id |-> 0, trigger |-> "none", handle |-> "none", i |-> 1,
   fresh |-> NoResponse, last |-> "none", log |-> {},
   outcome |-> "pending"]

IdleClear ==
  [pc |-> "idle", id |-> 0, snapshot |-> {}, pending |-> {}, failed |-> FALSE,
   logged |-> FALSE, outcome |-> "pending"]

\* namespaces that exist when the worker is constructed: none, or the ones
\* earlier versions left behind, one of them holding an old index.html
InitialCaches ==
  { <<>>,
    <<[name |-> "mirror-therapy-v1.0.0", entries |-> OldEntries],
      [name |-> "old-junk", entries |-> NoEntries]>> }

Init ==
  /\ caches \in InitialCaches
  /\ nEvents = 0
  /\ install = IdleInstall
  /\ activate = IdleActivate
  /\ fetches = [s \in FetchSlots |-> IdleFetch]
  /\ refresh = IdleRefresh
  /\ clear = IdleClear
  /\ skipped = FALSE

(***************************************************************************)
(* caches.delete(name) unregisters the namespace; a handle opened on it    *)
(* earlier keeps working but its writes no longer reach the CacheStorage.  *)
(***************************************************************************)
Orphaned(handle, held, deleted) ==
  IF handle = "live" /\ held = deleted THEN "orphan" ELSE handle

DeleteEffect(name) ==
  /\ caches' = CachesDelete(caches, name)
  /\ install' = [install EXCEPT
                   !.handle = Orphaned(install.handle, CACHE_NAME, name)]
  /\ refresh' = [refresh EXCEPT
                   !.handle = Orphaned(refresh.handle, CACHE_NAME, name)]
  /\ fetches' = [s \in FetchSlots |->
                   [fetches[s] EXCEPT
                      !.handle = Orphaned(fetches[s].handle, RUNTIME_CACHE, name)]]

(***************************************************************************)
(* install listener                                                        *)
(***************************************************************************)
InstallEvent ==
  /\ install.pc = "idle"
  /\ nEvents < MaxEvents
  /\ nEvents' = nEvents + 1
  /\ install' = [install EXCEPT !.pc = "open", !.id = nEvents + 1]
  /\ UNCHANGED <<caches, activate, fetches, refresh, clear, skipped>>

\* caches.open(CACHE_NAME)
InstallOpen ==
  /\ install.pc = "open"
  /\ \/ /\ caches' = CachesOpen(caches, CACHE_NAME)
        /\ install' = [install EXCEPT !.pc = "addAll", !.handle = "live"]
     \/ /\ install' = [install EXCEPT !.pc = "catch", !.failed = TRUE]
        /\ UNCHANGED caches
  /\ UNCHANGED <<nEvents, activate, fetches, refresh, clear, skipped>>

\* cache.addAll rejects, storing nothing, unless every fetch answers with an
\* ok status and the batch is stored
AddAllRejects(outs, storeOk) ==
  \/ \E u \in SeedUrls : outs[u] = NetError \/ ~IsOk(outs[u])
  \/ ~storeOk

RECURSIVE PutAll(_, _, _, _, _)
PutAll(cs, handle, outs, id, k) ==
  IF k > Len(urlsToCache) THEN cs
  ELSE PutAll(PutVia(cs, handle, CACHE_NAME, urlsToCache[k],
                     NetResponse(outs[urlsToCache[k]], id)),
              handle, outs, id, k + 1)

InstallAddAll ==
  /\ install.pc = "addAll"
  /\ \E outs \in SeedOutcomes, storeOk \in BOOLEAN :
       IF AddAllRejects(outs, storeOk)
       THEN /\ install' = [install EXCEPT !.pc = "catch", !.failed = TRUE]
            /\ UNCHANGED caches
       ELSE /\ caches' = PutAll(caches, install.handle, outs, install.id, 1)
            /\ install' = [install EXCEPT !.pc = "then", !.stored = TRUE]
  /\ UNCHANGED <<nEvents, activate, fetches, refresh, clear, skipped>>

\* .then(() => self.skipWaiting())
InstallThen ==
  /\ install.pc = "then"
  /\ skipped' = TRUE
  /\ install' = [install EXCEPT !.pc = "done", !.outcome = "fulfilled"]
  /\ UNCHANGED <<caches, nEvents, activate, fetches, refresh, clear>>

\* .catch((error) => console.error(...)): the handler returns undefined, so
\* the promise handed to event.waitUntil is fulfilled
CatchOutcome == "fulfilled"

\* the catch handler ending with self.skipWaiting() as well
InstallCatchSkips ==
  /\ install.pc = "catch"
  /\ install' = [install EXCEPT
                   !.pc = "done", !.logged = TRUE, !.outcome = CatchOutcome]
  /\ skipped' = TRUE
  /\ UNCHANGED <<caches, nEvents, activate, fetches, refresh, clear>>

InstallCatch ==
  /\ install.pc = "catch"
  /\ install' = [install EXCEPT
                   !.pc = "done", !.logged = TRUE, !.outcome = CatchOutcome]
  /\ UNCHANGED <<caches, nEvents, activate, fetches, refresh, clear, skipped>>

\* the install event counted as complete as soon as its listener has run
InstalledOnDispatch == install.pc # "idle"

Installed == install.pc = "done" /\ install.outcome = "fulfilled"

(***************************************************************************)
(* activate listener                                                       *)
(***************************************************************************)
\* dispatched once the install event's waitUntil promise has been fulfilled
ActivateEvent ==
  /\ activate.pc = "idle"
  /\ Installed
  /\ activate' = [activate EXCEPT !.pc = "keys"]
  /\ UNCHANGED <<caches, nEvents, install, fetches, refresh, clear, skipped>>

\* mutant: the allow-list names the previous version's seed cache
IsStaleOldVersion(cacheName) ==
  cacheName # "mirror-therapy-v1.0.0" /\ cacheName # RUNTIME_CACHE

\* the allow-list reduced to runtime-cache
IsStaleNotRuntime(cacheName) == cacheName # RUNTIME_CACHE

\* cacheName !== CACHE_NAME && cacheName !== RUNTIME_CACHE
IsStale(cacheName) == cacheName # CACHE_NAME /\ cacheName # RUNTIME_CACHE

\* caches.keys().then(cacheNames => Promise.all(cacheNames.map(...))): every
\* caches.delete is issued in the same callback
ActivateKeys ==
  /\ activate.pc = "keys"
  /\ LET stale == {n \in Names(caches) : IsStale(n)}
     IN activate' = [activate EXCEPT
                       !.pc = "deleting", !.snapshot = Names(caches),
                       !.pending = stale]
  /\ UNCHANGED <<caches, nEvents, install, fetches, refresh, clear, skipped>>

\* the deletions made one after the other, the first failure ending the loop
ActivateDeleteAbandons ==
  /\ activate.pc \in {"deleting", "done"}
  /\ \E n \in activate.pending :
       \/ /\ DeleteEffect(n)
          /\ activate' = [activate EXCEPT !.pending = @ \ {n}]
       \/ /\ activate' = [activate EXCEPT
                            !.pending = {}, !.failed = TRUE,
                            !.pc = "done", !.outcome = "rejected"]
          /\ UNCHANGED <<caches, install, fetches, refresh>>
  /\ UNCHANGED <<nEvents, clear, skipped>>

\* one caches.delete settles; the first rejection rejects Promise.all, and
\* with it the promise handed to event.waitUntil
ActivateDelete ==
  /\ activate.pc \in {"deleting", "done"}
  /\ \E n \in activate.pending :
       \/ /\ DeleteEffect(n)
          /\ activate' = [activate EXCEPT !.pending = @ \ {n}]
       \/ /\ activate' = [activate EXCEPT
                            !.pending = @ \ {n}, !.failed = TRUE,
                            !.pc = "done", !.outcome = "rejected"]
          /\ UNCHANGED <<caches, install, fetches, refresh>>
  /\ UNCHANGED <<nEvents, clear, skipped>>

\* clients.claim() called without waiting for the deletions
ActivateClaimEarly ==
  /\ activate.pc = "deleting"
  /\ activate' = [activate EXCEPT
                    !.pc = "done", !.claimed = TRUE, !.outcome = "fulfilled"]
  /\ UNCHANGED <<caches, nEvents, install, fetches, refresh, clear, skipped>>

\* .then(() => self.clients.claim())
ActivateClaim ==
  /\ activate.pc = "deleting"
  /\ activate.pending = {}
  /\ activate' = [activate EXCEPT
                    !.pc = "done", !.claimed = TRUE, !.outcome = "fulfilled"]
  /\ UNCHANGED <<caches, nEvents, install, fetches, refresh, clear, skipped>>

\* the worker is active: fetch and sync events are dispatched to it
Activated == activate.pc = "done"

(***************************************************************************)
(* fetch listener                                                          *)
(***************************************************************************)
\* mutant: the guard forgets blob: URLs
IsBypassedNoBlob(url) ==
  \/ includes(url, "mediaDevices")
  \/ includes(url, "getUserMedia")

\* url.includes('blob:') || url.includes('mediaDevices') || url.includes('getUserMedia')
IsBypassed(url) ==
  \/ includes(url, "blob:")
  \/ includes(url, "mediaDevices")
  \/ includes(url, "getUserMedia")

\* mutant: the guard forgets the response type
ReturnedAsIsStatusOnly(response) == response.status # 200

\* !response || response.status !== 200 || response.type !== 'basic'
ReturnedAsIs(response) == response.status # 200 \/ response.type # "basic"

\* mutant: images are not stored
IsRuntimeCacheableNoImage(destination) ==
  \/ destination = "document"
  \/ destination = "script"
  \/ destination = "style"

\* destination === 'document' || 'script' || 'style' || 'image'
IsRuntimeCacheable(destination) ==
  \/ destination = "document"
  \/ destination = "script"
  \/ destination = "style"
  \/ destination = "image"

SlotFree(f) == f.pc \in {"idle", "done"} /\ f.write \notin {"opening", "putting"}

\* a fetch event reaches the listener; a bypassed request is left to the
\* browser (the listener returns without event.respondWith).  The event is
\* recorded in the lowest free slot: which slot holds it has no meaning
FetchEvent(s) ==
  /\ Activated
  /\ SlotFree(fetches[s])
  /\ \A t \in FetchSlots : t < s => ~SlotFree(fetches[t])
  /\ nEvents < MaxEvents
  /\ nEvents' = nEvents + 1
  /\ \E req \in Requests :
       fetches' = [fetches EXCEPT ![s] =
                     [IdleFetch EXCEPT
                        !.id = nEvents + 1, !.req = req,
                        !.pc = IF IsBypassed(req.url) THEN "browser" ELSE "net"]]
  /\ UNCHANGED <<caches, install, activate, refresh, clear, skipped>>

\* the browser's own fetch of a request the listener did not intercept
BrowserFetch(s) ==
  /\ fetches[s].pc = "browser"
  /\ \E out \in Serves(fetches[s].req.url) :
       fetches' = [fetches EXCEPT ![s] =
                     [@ EXCEPT !.pc = "done", !.net = out, !.kind = "browser",
                               !.resp = IF out = NetError THEN NoResponse
                                        ELSE NetResponse(out, fetches[s].id)]]
  /\ UNCHANGED <<caches, nEvents, install, activate, refresh, clear, skipped>>

\* the fetches of the same request whose responses have arrived and whose
\* writes to runtime-cache have not settled yet
PendingWrites(s) ==
  {fetches[t].id : t \in {u \in FetchSlots \ {s} :
                            /\ fetches[u].write \in {"opening", "putting"}
                            /\ fetches[u].req.url = fetches[s].req.url}}

\* fetch(event.request) settles and its .then or .catch callback runs; after
\* records the earlier responses this one overlaps with
FetchNet(s) ==
  /\ fetches[s].pc = "net"
  /\ \E out \in Serves(fetches[s].req.url) :
       LET f == fetches[s]
           response == NetResponse(out, f.id)
       IN fetches' = [fetches EXCEPT ![s] =
            IF out = NetError
            THEN [f EXCEPT !.pc = "match", !.net = out]
            ELSE IF ReturnedAsIs(response)
            THEN [f EXCEPT !.pc = "done", !.net = out, !.kind = "network",
                           !.resp = response]
            ELSE [f EXCEPT !.pc = "done", !.net = out, !.kind = "network",
                           !.resp = response,
                           !.write = IF IsRuntimeCacheable(f.req.destination)
                                     THEN "opening" ELSE "none",
                           !.after = IF IsRuntimeCacheable(f.req.destination)
                                     THEN PendingWrites(s) ELSE {}]]
  /\ UNCHANGED <<caches, nEvents, install, activate, refresh, clear, skipped>>

\* caches.open(RUNTIME_CACHE) settles: .then calls cache.put without
\* returning its promise, .catch logs the failure of the open
FetchOpenRuntime(s) ==
  /\ fetches[s].write = "opening"
  /\ \/ /\ caches' = CachesOpen(caches, RUNTIME_CACHE)
        /\ fetches' = [fetches EXCEPT ![s] =
                         [@ EXCEPT !.write = "putting", !.handle = "live"]]
     \/ /\ fetches' = [fetches EXCEPT ![s] =
                         [@ EXCEPT !.write = "openFailed", !.logged = TRUE]]
        /\ UNCHANGED caches
  /\ UNCHANGED <<nEvents, install, activate, refresh, clear, skipped>>

\* cache.put(event.request, responseToCache) settles; its rejection has no
\* handler
FetchPut(s) ==
  /\ fetches[s].write = "putting"
  /\ \/ /\ caches' = PutVia(caches, fetches[s].handle, RUNTIME_CACHE,
                            fetches[s].req.url, fetches[s].resp)
        /\ fetches' = [fetches EXCEPT ![s] = [@ EXCEPT !.write = "stored"]]
     \/ /\ fetches' = [fetches EXCEPT ![s] = [@ EXCEPT !.write = "putFailed"]]
        /\ UNCHANGED caches
  /\ UNCHANGED <<nEvents, install, activate, refresh, clear, skipped>>

\* .catch(() => caches.match(event.request).then(cachedResponse => ...))
FetchMatch(s) ==
  /\ fetches[s].pc = "match"
  /\ LET f == fetches[s]
     IN fetches' = [fetches EXCEPT ![s] =
          IF CachesHas(caches, f.req.url)
          THEN [f EXCEPT !.pc = "done", !.kind = "cache",
                         !.resp = CachesMatch(caches, f.req.url)]
          ELSE IF f.req.destination = "document"
          THEN [f EXCEPT !.pc = "matchIndex"]
          ELSE [f EXCEPT !.pc = "done", !.kind = "offline",
                         !.resp = OfflineResponse]]
  /\ UNCHANGED <<caches, nEvents, install, activate, refresh, clear, skipped>>

\* return caches.match('./index.html'): undefined when nothing matches
FetchMatchIndex(s) ==
  /\ fetches[s].pc = "matchIndex"
  /\ fetches' = [fetches EXCEPT ![s] =
       IF CachesHas(caches, IndexHtml)
       THEN [@ EXCEPT !.pc = "done", !.kind = "fallback",
                      !.resp = CachesMatch(caches, IndexHtml)]
       ELSE [@ EXCEPT !.pc = "done", !.kind = "undefined",
                      !.resp = NoResponse]]
  /\ UNCHANGED <<caches, nEvents, install, activate, refresh, clear, skipped>>

(***************************************************************************)
(* updateCache, started by the sync and message listeners                  *)
(***************************************************************************)
RefreshFree == refresh.pc \in {"idle", "done"}

StartUpdateCache(trigger) ==
  refresh' = [IdleRefresh EXCEPT
                !.pc = "open", !.id = nEvents + 1, !.trigger = trigger]

\* sync listener: event.tag === 'update-cache'
SyncUpdateCache ==
  /\ Activated
  /\ RefreshFree
  /\ nEvents < MaxEvents
  /\ nEvents' = nEvents + 1
  /\ StartUpdateCache("sync")
  /\ UNCHANGED <<caches, install, activate, fetches, clear, skipped>>

\* sync listener: any other tag
SyncOther ==
  /\ Activated
  /\ UNCHANGED vars

\* const cache = await caches.open(CACHE_NAME); a failure reaches the outer
\* catch, which logs it
UpdateOpen ==
  /\ refresh.pc = "open"
  /\ \/ /\ caches' = CachesOpen(caches, CACHE_NAME)
        /\ refresh' = [refresh EXCEPT !.pc = "fetch", !.handle = "live"]
     \/ /\ refresh' = [refresh EXCEPT
                         !.pc = "done", !.log = {"Cache update failed"},
                         !.outcome = "fulfilled"]
        /\ UNCHANGED caches
  /\ UNCHANGED <<nEvents, install, activate, fetches, clear, skipped>>

\* the test of the response alone: if (freshResponse)
IsFreshAnyResponse(response) == TRUE

\* freshResponse && freshResponse.status === 200
IsFresh(response) == response.status = 200

\* mutant: without the inner try/catch a failure leaves the loop for the
\* outer catch
NextRequestAborting(r, how) ==
  LET end == r.i + 1 > Len(urlsToCache)
  IN IF how = "failed"
     THEN [r EXCEPT !.fresh = NoResponse, !.last = how, !.pc = "done",
                    !.log = @ \cup {"Cache update failed"},
                    !.outcome = "fulfilled"]
     ELSE [r EXCEPT !.i = r.i + 1, !.fresh = NoResponse, !.last = how,
                    !.log = IF how = "updated"
                            THEN @ \cup {"Updated cache for"} ELSE @,
                    !.pc = IF end THEN "done" ELSE "fetch",
                    !.outcome = IF end THEN "fulfilled" ELSE "pending"]

\* the loop moves to the next request, or the function returns
\* (last records how the iteration ended)
NextRequest(r, how) ==
  LET end == r.i + 1 > Len(urlsToCache)
      logs == IF how = "updated" THEN {"Updated cache for"}
              ELSE IF how = "failed" THEN {"Failed to update cache for"}
              ELSE {}
  IN [r EXCEPT !.i = r.i + 1, !.fresh = NoResponse, !.last = how,
               !.log = IF end THEN @ \cup logs \cup {"Cache update complete"}
                       ELSE @ \cup logs,
               !.pc = IF end THEN "done" ELSE "fetch",
               !.outcome = IF end THEN "fulfilled" ELSE "pending"]

\* const freshResponse = await fetch(request)
UpdateFetch ==
  /\ refresh.pc = "fetch"
  /\ \E out \in Serves(urlsToCache[refresh.i]) :
       refresh' =
         IF out = NetError THEN NextRequest(refresh, "failed")
         ELSE IF IsFresh(NetResponse(out, refresh.id))
         THEN [refresh EXCEPT !.pc = "put",
                              !.fresh = NetResponse(out, refresh.id)]
         ELSE NextRequest(refresh, "skipped")
  /\ UNCHANGED <<caches, nEvents, install, activate, fetches, clear, skipped>>

\* await cache.put(request, freshResponse)
UpdatePut ==
  /\ refresh.pc = "put"
  /\ \/ /\ caches' = PutVia(caches, refresh.handle, CACHE_NAME,
                            urlsToCache[refresh.i], refresh.fresh)
        /\ refresh' = NextRequest(refresh, "updated")
     \/ /\ refresh' = NextRequest(refresh, "failed")
        /\ UNCHANGED caches
  /\ UNCHANGED <<nEvents, install, activate, fetches, clear, skipped>>

(***************************************************************************)
(* message listener: pages post to the worker that controls them, which is *)
(* an activated one                                                        *)
(***************************************************************************)
\* event.data: absent, or an object whose type is a command or anything else
CommandTypes == {"SKIP_WAITING", "UPDATE_CACHE", "CLEAR_CACHE"}
MessageTypes == CommandTypes \cup {"PING", "undefined"}
NoData == [present |-> FALSE, type |-> "undefined"]
MessageData == {NoData} \cup {[present |-> TRUE, type |-> t] : t \in MessageTypes}
OtherData == {data \in MessageData : ~data.present \/ data.type \notin CommandTypes}

\* event.data && event.data.type === 'SKIP_WAITING'
IsSkipWaiting(data) == data.present /\ data.type = "SKIP_WAITING"

\* event.data && event.data.type === 'UPDATE_CACHE'
IsUpdateCache(data) == data.present /\ data.type = "UPDATE_CACHE"

\* the third test answering every type the first two did not take
IsClearCacheByDefault(data) == ~IsSkipWaiting(data) /\ ~IsUpdateCache(data)

\* event.data && event.data.type === 'CLEAR_CACHE'
IsClearCache(data) == data.present /\ data.type = "CLEAR_CACHE"

ClearFree == clear.pc \in {"idle", "done"} /\ clear.pending = {}

\* the listener: three independent tests of event.data, each with its effect
MessageEvent(data) ==
  /\ Activated
  /\ IsUpdateCache(data) => RefreshFree
  /\ IsClearCache(data) => ClearFree
  /\ IF IsSkipWaiting(data) \/ IsUpdateCache(data) \/ IsClearCache(data)
       THEN nEvents < MaxEvents /\ nEvents' = nEvents + 1
       ELSE nEvents' = nEvents
  /\ skipped' = (skipped \/ IsSkipWaiting(data))
  /\ IF IsUpdateCache(data)
       THEN StartUpdateCache("message")
       ELSE refresh' = refresh
  /\ clear' = IF IsClearCache(data)
                THEN [IdleClear EXCEPT !.pc = "keys", !.id = nEvents + 1]
                ELSE clear
  /\ UNCHANGED <<caches, install, activate, fetches>>

MessageSkipWaiting == MessageEvent([present |-> TRUE, type |-> "SKIP_WAITING"])

MessageUpdateCache == MessageEvent([present |-> TRUE, type |-> "UPDATE_CACHE"])

MessageClearCache == MessageEvent([present |-> TRUE, type |-> "CLEAR_CACHE"])

\* no data, or a type that is none of the three
MessageOther == \E data \in OtherData : MessageEvent(data)

\* the reset listing only the stale names, as the activate cleanup does
ClearKeysStaleOnly ==
  /\ clear.pc = "keys"
  /\ clear' = [clear EXCEPT
                 !.pc = "deleting", !.snapshot = Names(caches),
                 !.pending = {n \in Names(caches) : IsStale(n)}]
  /\ UNCHANGED <<caches, nEvents, install, activate, fetches, refresh, skipped>>

\* caches.keys().then(cacheNames => Promise.all(cacheNames.map(caches.delete)))
ClearKeys ==
  /\ clear.pc = "keys"
  /\ clear' = [clear EXCEPT
                 !.pc = "deleting", !.snapshot = Names(caches),
                 !.pending = Names(caches)]
  /\ UNCHANGED <<caches, nEvents, install, activate, fetches, refresh, skipped>>

ClearDelete ==
  /\ clear.pc \in {"deleting", "done"}
  /\ \E n \in clear.pending :
       \/ /\ DeleteEffect(n)
          /\ clear' = [clear EXCEPT !.pending = @ \ {n}]
       \/ /\ clear' = [clear EXCEPT
                         !.pending = @ \ {n}, !.failed = TRUE,
                         !.pc = "done", !.outcome = "rejected"]
          /\ UNCHANGED <<caches, install, fetches, refresh>>
  /\ UNCHANGED <<nEvents, activate, skipped>>

\* .then(() => console.log('All caches cleared'))
ClearThen ==
  /\ clear.pc = "deleting"
  /\ clear.pending = {}
  /\ clear' = [clear EXCEPT
                 !.pc = "done", !.logged = TRUE, !.outcome = "fulfilled"]
  /\ UNCHANGED <<caches, nEvents, install, activate, fetches, refresh, skipped>>

(***************************************************************************)
(* Specification                                                           *)
(***************************************************************************)
Next ==
  \/ InstallEvent
  \/ InstallOpen
  \/ InstallAddAll
  \/ InstallThen
  \/ InstallCatch
  \/ ActivateEvent
  \/ ActivateKeys
  \/ ActivateDelete
  \/ ActivateClaim
  \/ \E s \in FetchSlots : FetchEvent(s)
  \/ \E s \in FetchSlots : BrowserFetch(s)
  \/ \E s \in FetchSlots : FetchNet(s)
  \/ \E s \in FetchSlots : FetchOpenRuntime(s)
  \/ \E s \in FetchSlots : FetchPut(s)
  \/ \E s \in FetchSlots : FetchMatch(s)
  \/ \E s \in FetchSlots : FetchMatchIndex(s)
  \/ SyncUpdateCache
  \/ SyncOther
  \/ UpdateOpen
  \/ UpdateFetch
  \/ UpdatePut
  \/ MessageSkipWaiting
  \/ MessageUpdateCache
  \/ MessageClearCache
  \/ MessageOther
  \/ ClearKeys
  \/ ClearDelete
  \/ ClearThen

Spec == Init /\ [][Next]_vars

(***************************************************************************)
(* Properties                                                              *)
(***************************************************************************)
HasCache(name) == name \in Names(caches)

Holds(cs, name, url) ==
  name \in Names(cs) /\ url \in DOMAIN EntriesOf(cs, name)

HoldsResponse(cs, name, url, resp) ==
  Holds(cs, name, url) /\ EntriesOf(cs, name)[url] = resp

HasEntry(name, url) == Holds(caches, name, url)

EntryIs(name, url, resp) == HoldsResponse(caches, name, url, resp)

\* every response held in any namespace
StoredResponses ==
  {caches[i].entries[u] : <<i, u>> \in
     {p \in (1..Len(caches)) \X (SeedUrls \cup {r.url : r \in Requests}) :
        p[2] \in DOMAIN caches[p[1]].entries}}

Seeded == \A u \in SeedUrls : HasEntry(CACHE_NAME, u)

InstallSettles == install.pc # "done" /\ install'.pc = "done"

\* C1 (all-or-nothing install): an install run in which the open of the seed
\* cache, a seed fetch or the store failed ends with the promise handed to
\* event.waitUntil rejected.
C1_InstallFailureReported ==
  (install.pc = "done" /\ install.failed) => install.outcome = "rejected"

\* C2 (seed completeness): at the step at which the install's waitUntil
\* promise is fulfilled, every seed URL has an entry in CACHE_NAME.
C2_SeedCompleteness ==
  [][(InstallSettles /\ install'.outcome = "fulfilled") => Seeded']_vars

CurrentNames == {CACHE_NAME, RUNTIME_CACHE}

\* C3 as claimed (namespace pruning): once the activate handler has
\* completed, whatever its outcome, only CACHE_NAME and 'runtime-cache' exist.
C3_PrunedWhenDone == activate.pc = "done" => Names(caches) \subseteq CurrentNames

\* C3 as amended: once the activate handler has completed with every deletion
\* succeeded (its waitUntil promise fulfilled), only CACHE_NAME and
\* 'runtime-cache' exist, in that state and in every later one.
C3_PrunedWhenFulfilled ==
  activate.outcome = "fulfilled" => Names(caches) \subseteq CurrentNames

\* C3 witness: activate found stale namespaces, deleted them all, and later
\* handlers have run and created both current namespaces.
C3_Witness ==
  /\ activate.outcome = "fulfilled"
  /\ activate.snapshot \cap StaleNames = StaleNames
  /\ Names(caches) = CurrentNames
  /\ refresh.pc = "done"
  /\ \E s \in FetchSlots : fetches[s].write = "stored"

CacheableKinds == {"document", "script", "style", "image"}

\* the slot's request was intercepted and the network answered 200 basic for
\* a request of a cacheable kind
Fresh200(f) ==
  /\ f.pc = "done"
  /\ f.kind # "browser"
  /\ f.net = [status |-> 200, type |-> "basic"]
  /\ f.req.destination \in CacheableKinds

NetworkDelivered(f) == f.kind = "network" /\ f.resp = NetResponse(f.net, f.id)

WriteSettles(s) ==
  /\ fetches[s].write \in {"opening", "putting"}
  /\ fetches'[s].write \notin {"opening", "putting"}

\* C4 as claimed (network-first correctness): a 200 basic answer for a request
\* of a cacheable kind is what the caller gets, a write to runtime-cache is
\* started, and when that write settles runtime-cache holds the entry.
C4_NetworkFirstAlwaysStored ==
  /\ [](\A s \in FetchSlots :
          Fresh200(fetches[s]) =>
            NetworkDelivered(fetches[s]) /\ fetches[s].write # "none")
  /\ [][\A s \in FetchSlots :
          WriteSettles(s) =>
            HoldsResponse(caches', RUNTIME_CACHE, fetches[s].req.url,
                          fetches[s].resp)]_vars

\* C4 as amended: the caller gets the network response and a write to
\* runtime-cache is started; runtime-cache holds the entry at the step at
\* which the put succeeds, provided runtime-cache was not deleted after the
\* handler opened it.
C4_NetworkFirst ==
  /\ [](\A s \in FetchSlots :
          Fresh200(fetches[s]) =>
            NetworkDelivered(fetches[s]) /\ fetches[s].write # "none")
  /\ [][\A s \in FetchSlots :
          (WriteSettles(s) /\ fetches'[s].write = "stored"
             /\ fetches[s].handle = "live") =>
            HoldsResponse(caches', RUNTIME_CACHE, fetches[s].req.url,
                          fetches[s].resp)]_vars

\* C4 witness: index.html, held by the seed cache, was answered by the network
\* and the network response is now the runtime-cache entry.
C4_Witness ==
  \E s \in FetchSlots :
    /\ Fresh200(fetches[s])
    /\ fetches[s].req.url = IndexHtml
    /\ fetches[s].write = "stored"
    /\ HasEntry(CACHE_NAME, IndexHtml)
    /\ EntriesOf(caches, CACHE_NAME)[IndexHtml] # fetches[s].resp
    /\ EntryIs(RUNTIME_CACHE, IndexHtml, fetches[s].resp)

\* C5 (offline fallback chain): a document request whose network fetch failed
\* and that no namespace matched is answered with the cached root document or
\* else with the 503 plain-text response; nothing worse is delivered.
C5_OfflineFallbackChain ==
  \A s \in FetchSlots :
    LET f == fetches[s]
    IN (f.pc = "done" /\ f.kind \notin {"browser", "network", "cache"}) =>
         \/ f.kind = "fallback"
         \/ /\ f.kind = "offline"
            /\ f.resp.status = 503
            /\ f.resp.ctype = "text/plain"

StreamUrls == {BlobUrl, MediaDevicesUrl, GetUserMediaUrl}

\* C6 (stream bypass): a request for a blob:, mediaDevices or getUserMedia URL
\* is never answered by the listener nor written by it, and no namespace ever
\* holds an entry keyed by such a URL.
C6_StreamBypass ==
  /\ \A s \in FetchSlots :
       fetches[s].req.url \in StreamUrls =>
         /\ fetches[s].kind \in {"none", "browser"}
         /\ fetches[s].write = "none"
  /\ \A i \in 1..Len(caches) : DOMAIN caches[i].entries \cap StreamUrls = {}

\* C6 witness: a blob: image request was answered 200 basic by the network
\* while runtime-cache exists, and was left to the browser.
C6_Witness ==
  \E s \in FetchSlots :
    /\ fetches[s].req.url = BlobUrl
    /\ fetches[s].pc = "done"
    /\ fetches[s].net = [status |-> 200, type |-> "basic"]
    /\ HasCache(RUNTIME_CACHE)

IterationEnds == refresh.pc = "put" /\ refresh'.i = refresh.i + 1

\* updateCache returned without raising, having visited every seed URL unless
\* the open of the seed cache failed
RefreshCompletes ==
  refresh.pc = "done" =>
    /\ refresh.outcome = "fulfilled"
    /\ refresh.handle # "none" => refresh.i = Len(urlsToCache) + 1

\* C7 as claimed (partial refresh resilience): updateCache visits every seed
\* URL and returns without raising, and every seed URL whose fetch returned
\* 200 is overwritten in the seed cache when its iteration ends.
C7_RefreshOverwritesEvery200 ==
  /\ []RefreshCompletes
  /\ [][IterationEnds =>
          HoldsResponse(caches', CACHE_NAME, urlsToCache[refresh.i],
                        refresh.fresh)]_vars

\* C7 as amended: updateCache visits every seed URL and returns without
\* raising; a seed URL whose fetch returned 200 is overwritten when its
\* cache.put succeeds and the seed cache was not deleted after updateCache
\* opened it.
C7_PartialRefresh ==
  /\ []RefreshCompletes
  /\ [][(IterationEnds /\ refresh'.last = "updated" /\ refresh.handle = "live") =>
          HoldsResponse(caches', CACHE_NAME, urlsToCache[refresh.i],
                        refresh.fresh)]_vars

\* C7 witness: a refresh that logged a failure and an update has returned,
\* and the seed cache holds a response it fetched.
C7_Witness ==
  /\ refresh.pc = "done"
  /\ refresh.i = Len(urlsToCache) + 1
  /\ {"Failed to update cache for", "Updated cache for"} \subseteq refresh.log
  /\ \E u \in SeedUrls :
       /\ HasEntry(CACHE_NAME, u)
       /\ EntriesOf(caches, CACHE_NAME)[u].by = refresh.id

\* C8 (as-is return): a network answer that is not 200 or not basic is what
\* the caller gets, no write is started and no namespace holds a response of
\* that event; a cached, fallback or 503 response is delivered only after the
\* network fetch failed.
C8_AsIsReturn ==
  \A s \in FetchSlots :
    LET f == fetches[s]
    IN /\ (f.pc = "done" /\ f.kind # "browser" /\ f.net # NetError
             /\ (f.net.status # 200 \/ f.net.type # "basic")) =>
            /\ NetworkDelivered(f)
            /\ f.write = "none"
            /\ \A r \in StoredResponses : r.by # f.id
       /\ f.kind \in {"cache", "fallback", "offline", "undefined"} =>
            f.net = NetError

\* C8 witness: app.js, held by runtime-cache, was answered with a cors
\* response, which was delivered.
C8_Witness ==
  \E s \in FetchSlots :
    /\ fetches[s].pc = "done"
    /\ fetches[s].req.url = AppJs
    /\ fetches[s].net = [status |-> 200, type |-> "cors"]
    /\ fetches[s].kind = "network"
    /\ HasEntry(RUNTIME_CACHE, AppJs)

\* C9 (cache-write failure): when opening runtime-cache or putting the entry
\* fails, the caller still has the network response and the failure is logged.
C9_WriteFailureLogged ==
  \A s \in FetchSlots :
    fetches[s].write \in {"openFailed", "putFailed"} =>
      NetworkDelivered(fetches[s]) /\ fetches[s].logged

\* C10 (storage eligibility): every entry of every namespace has a successful
\* status and the basic response type.
C10_StorageEligibility ==
  \A r \in StoredResponses : r.status \in 200..299 /\ r.type = "basic"


\* the step in which the promise handed to waitUntil by CLEAR_CACHE settles
ClearCompletes == clear.pc # "done" /\ clear'.pc = "done"

\* the step in which caches.keys() answers the CLEAR_CACHE handler
ClearLists == clear.pc = "keys" /\ clear'.pc = "deleting"

\* C11 as stated: when the CLEAR_CACHE handler completes, none of the
\* namespaces that existed when it listed them remains
C11_FullResetAlways ==
  [][ClearCompletes => clear'.snapshot \cap Names(caches') = {}]_vars

\* C11: the CLEAR_CACHE handler targets every namespace that exists when it
\* lists them, the seed cache and runtime-cache included; each deletion that
\* succeeds removes its namespace; and the handler completes fulfilled only
\* when every listed namespace has been deleted that way
C11_FullReset ==
  /\ [][ClearLists =>
          /\ clear'.snapshot = Names(caches)
          /\ clear'.pending = Names(caches)]_vars
  /\ [][(~clear'.failed /\ clear.pc = "deleting") =>
          \A n \in clear.pending \ clear'.pending : n \notin Names(caches')]_vars
  /\ [][(ClearCompletes /\ clear'.outcome = "fulfilled") =>
          clear.pending = {} /\ ~clear.failed]_vars
  /\ [](clear.pc = "done" =>
          (clear.outcome = "fulfilled") = ~clear.failed)

C11_Witness ==
  /\ clear.outcome = "fulfilled"
  /\ {CACHE_NAME, RUNTIME_CACHE} \subseteq clear.snapshot
  /\ caches = <<>>


\* C12: a message with no data, or whose type is none of SKIP_WAITING,
\* UPDATE_CACHE and CLEAR_CACHE, changes no namespace and no entry, does not
\* call skipWaiting, and starts neither a Cache Refresh nor a reset
C12_UnknownIgnored ==
  [][\A data \in OtherData :
       MessageEvent(data) => UNCHANGED <<caches, skipped, refresh, clear>>]_vars

\* an activated worker that has not skipped waiting, holds a namespace and
\* runs no refresh and no reset takes such a message
C12_Witness ==
  /\ ENABLED MessageOther
  /\ ~skipped
  /\ caches # <<>>
  /\ refresh.pc = "idle"
  /\ clear.pc = "idle"
  /\ nEvents < MaxEvents


\* the install chain has settled: addAll stored the assets or a step failed
SeedPopulationFinished == install.pc = "done" /\ (install.stored \/ install.failed)

\* updateCache has returned after its loop over urlsToCache
ProcessedEverySeedUrl == refresh.pc = "done" /\ refresh.i = Len(urlsToCache) + 1

\* updateCache has returned from its outer catch: caches.open rejected
RefreshOpenFailed ==
  /\ refresh.pc = "done"
  /\ refresh.handle = "none"
  /\ refresh.log = {"Cache update failed"}

\* C13 as stated: the install signal is complete only once the seed
\* population has finished, a sync 'update-cache' signal or UPDATE_CACHE
\* message is complete only once Cache Refresh has processed every seed URL,
\* and activate is dispatched only after install has finished
C13_GatedOnEverySeedUrl ==
  /\ install.outcome # "pending" => SeedPopulationFinished
  /\ refresh.outcome # "pending" => ProcessedEverySeedUrl
  /\ activate.pc # "idle" => SeedPopulationFinished

\* C13: the install signal is complete only once the seed population has
\* finished; a sync 'update-cache' signal or UPDATE_CACHE message is complete
\* only once Cache Refresh has returned, having processed every seed URL or
\* having failed to open the seed cache; and activate is dispatched only
\* after install has finished
C13_CompletionGating ==
  /\ install.outcome # "pending" => SeedPopulationFinished
  /\ refresh.outcome # "pending" => ProcessedEverySeedUrl \/ RefreshOpenFailed
  /\ refresh.pc \notin {"idle", "done"} =>
       refresh.outcome = "pending" /\ refresh.trigger \in {"sync", "message"}
  /\ activate.pc # "idle" => SeedPopulationFinished

C13_Witness ==
  /\ activate.pc = "done"
  /\ install.stored
  /\ refresh.trigger = "sync"
  /\ refresh.outcome = "fulfilled"
  /\ ProcessedEverySeedUrl
  /\ refresh.last = "updated"


\* the responses stored for a URL, over all namespaces
EntriesFor(cs, url) ==
  {cs[i].entries[url] : i \in {k \in 1..Len(cs) : url \in DOMAIN cs[k].entries}}

\* the step in which caches.match(event.request) answers a fetch whose
\* network fetch failed
OfflineLookup(s) ==
  /\ fetches[s].pc = "match"
  /\ fetches[s].net = NetError
  /\ fetches'[s].pc # "match"

\* C14: when the network fetch of an intercepted request has failed and a
\* namespace (the seed cache, runtime-cache or any other) holds an entry for
\* the request, the response is such an entry, neither the fallback nor 503
C14_OfflineCacheHit ==
  [][\A s \in FetchSlots :
       (OfflineLookup(s) /\ EntriesFor(caches, fetches[s].req.url) # {}) =>
          /\ fetches'[s].pc = "done"
          /\ fetches'[s].kind = "cache"
          /\ fetches'[s].resp \in EntriesFor(caches, fetches[s].req.url)]_vars

\* a script held only by runtime-cache is served from it while offline
C14_Witness ==
  /\ Seeded
  /\ \E s \in FetchSlots :
       /\ fetches[s].pc = "done"
       /\ fetches[s].net = NetError
       /\ fetches[s].kind = "cache"
       /\ fetches[s].req.url = AppJs
       /\ fetches[s].resp.status = 200
       /\ fetches[s].resp.by < fetches[s].id


\* all writes to runtime-cache started for the request have settled
WritesCompleted(url) ==
  \A s \in FetchSlots :
    fetches[s].req.url = url => fetches[s].write \notin {"opening", "putting"}

\* the put of slot s reached the namespace that is still runtime-cache
StoredLive(s) == fetches[s].write = "stored" /\ fetches[s].handle = "live"

\* the step in which the cache.put of slot s succeeds on runtime-cache
PutCompletes(s) ==
  /\ fetches[s].write = "putting"
  /\ fetches[s].handle = "live"
  /\ fetches'[s].write = "stored"

\* C15 as stated: once the writes for a request have completed, the
\* runtime-cache entry is not the response of a fetch that a later successful
\* fetch of the same request has followed
C15_MostRecentFetchWins ==
  \A s, t \in FetchSlots :
    (/\ StoredLive(s) /\ StoredLive(t)
     /\ fetches[s].req.url = fetches[t].req.url
     /\ fetches[s].id \in fetches[t].after
     /\ WritesCompleted(fetches[s].req.url)) =>
       ~EntryIs(RUNTIME_CACHE, fetches[s].req.url, fetches[s].resp)

\* C15: the write that completes last wins: each cache.put that succeeds on
\* runtime-cache makes its response the entry for its request, whichever
\* response the entry held, and changes no other entry and no namespace
C15_LastWriteWins ==
  [][\A s \in FetchSlots :
       PutCompletes(s) =>
         /\ HoldsResponse(caches', RUNTIME_CACHE, fetches[s].req.url,
                          fetches[s].resp)
         /\ Len(caches') = Len(caches)
         /\ \A i \in 1..Len(caches) :
              /\ caches'[i].name = caches[i].name
              /\ DOMAIN caches'[i].entries =
                   DOMAIN caches[i].entries \cup
                     (IF caches[i].name = RUNTIME_CACHE
                        THEN {fetches[s].req.url} ELSE {})
              /\ \A u \in DOMAIN caches[i].entries :
                   (caches[i].name # RUNTIME_CACHE \/ u # fetches[s].req.url)
                     => caches'[i].entries[u] = caches[i].entries[u]]_vars

\* two overlapping fetches of one request have both been stored, and the
\* entry is the response that arrived first: its put completed last
C15_Witness ==
  \E s, t \in FetchSlots :
    /\ StoredLive(s) /\ StoredLive(t)
    /\ fetches[s].id \in fetches[t].after
    /\ fetches[s].id < fetches[t].id
    /\ EntryIs(RUNTIME_CACHE, fetches[t].req.url, fetches[s].resp)


\* a step of updateCache itself: its fetch or its put settles
RefreshStep ==
  /\ refresh.pc \in {"fetch", "put"}
  /\ refresh'.pc # refresh.pc \/ refresh'.i # refresh.i

\* caches' is caches with the seed-cache entry of url set to resp
OnlySeedEntryReplaced(url, resp) ==
  /\ Len(caches') = Len(caches)
  /\ \A i \in 1..Len(caches) :
       IF caches[i].name = CACHE_NAME
       THEN /\ caches'[i].name = CACHE_NAME
            /\ DOMAIN caches'[i].entries = DOMAIN caches[i].entries \cup {url}
            /\ caches'[i].entries[url] = resp
            /\ \A u \in DOMAIN caches[i].entries \ {url} :
                 caches'[i].entries[u] = caches[i].entries[u]
       ELSE caches'[i] = caches[i]

\* C16: a step of Cache Refresh changes the stored entries only when the
\* fresh fetch of the current seed URL succeeded with a success status, and
\* then only that URL's seed-cache entry; when the fetch fails or returns
\* another status every entry stays as it was, neither replaced nor removed
C16_RefreshKeepsEntry ==
  [][RefreshStep =>
       \/ caches' = caches
       \/ /\ refresh.pc = "put"
          /\ refresh.fresh.status \in 200..299
          /\ OnlySeedEntryReplaced(urlsToCache[refresh.i], refresh.fresh)]_vars

\* a refresh has ended in which one seed fetch failed and the others were
\* answered 404: the seed cache still holds what install stored
C16_Witness ==
  /\ install.stored
  /\ refresh.pc = "done"
  /\ refresh.last = "skipped"
  /\ refresh.log = {"Failed to update cache for", "Cache update complete"}
  /\ \A u \in SeedUrls :
       /\ HasEntry(CACHE_NAME, u)
       /\ EntriesOf(caches, CACHE_NAME)[u].by = install.id


\* between two states of a handler exactly one of its deletions has settled
OneDeletionSettles(before, after) ==
  /\ after.pending \subseteq before.pending
  /\ Cardinality(before.pending \ after.pending) = 1

\* C17: the caches.delete calls of the activate cleanup and of the CLEAR_CACHE
\* reset settle one by one: a deletion that fails settles itself only, and
\* every other targeted deletion stays in flight and can still settle, also
\* after the rejection has completed the handler
C17_BestEffortDelete ==
  /\ [](activate.pending # {} => ENABLED ActivateDelete)
  /\ [](clear.pending # {} => ENABLED ClearDelete)
  /\ [][(activate.pc # "keys" /\ activate'.pending # activate.pending) =>
          OneDeletionSettles(activate, activate')]_vars
  /\ [][(clear.pc # "keys" /\ clear'.pending # clear.pending) =>
          OneDeletionSettles(clear, clear')]_vars
  /\ [](activate.pc = "done" /\ activate.pending = {} /\ ~activate.failed =>
          activate.snapshot \cap StaleNames \cap Names(caches) = {})

\* the cleanup of two stale namespaces in which the deletion of the old
\* version failed: the other stale namespace has been deleted all the same
C17_Witness ==
  /\ activate.failed
  /\ activate.pending = {}
  /\ clear.pc = "idle"
  /\ activate.snapshot \cap StaleNames = StaleNames
  /\ "old-junk" \notin Names(caches)
  /\ "mirror-therapy-v1.0.0" \in Names(caches)


\* the step in which the activate handler calls self.clients.claim()
ClaimIssued == ~activate.claimed /\ activate'.claimed

\* C18 as stated: every activate handler that has completed has claimed the
\* clients, and the claim is issued only when no stale deletion is pending
C18_ClaimsOnEveryActivate ==
  /\ [](activate.pc = "done" => activate.claimed)
  /\ [][ClaimIssued => activate.pending = {}]_vars

\* C18: the claim is issued only when every stale deletion has settled and
\* succeeded, never while one is pending; an activate handler that has
\* completed has claimed the clients exactly when no deletion failed
C18_ClaimAfterCleanup ==
  /\ [][ClaimIssued =>
          /\ activate.pc = "deleting"
          /\ activate.pending = {}
          /\ ~activate.failed
          /\ \A n \in activate.snapshot : IsStale(n) => n \notin Names(caches)]_vars
  /\ [](activate.claimed => activate.pending = {} /\ ~activate.failed)
  /\ [](activate.pc = "done" => (activate.claimed <=> ~activate.failed))

\* the worker has just claimed its clients after deleting two stale namespaces
C18_Witness ==
  /\ activate.claimed
  /\ activate.outcome = "fulfilled"
  /\ activate.snapshot \cap StaleNames = StaleNames
  /\ Names(caches) \cap StaleNames = {}
  /\ nEvents = 1


\* the step in which the install handler calls self.skipWaiting()
InstallSkipsWaiting == ~skipped /\ skipped' /\ install' # install

\* every seed URL has the entry this install run stored for it
SeededByInstall ==
  \A u \in SeedUrls :
    /\ HasEntry(CACHE_NAME, u)
    /\ EntriesOf(caches, CACHE_NAME)[u].by = install.id

\* C19: the install handler calls skipWaiting only after addAll has stored
\* every seed asset in the seed cache, and an install run in which opening the
\* cache, a seed fetch or a store failed does not call it
C19_SkipWaitingAfterSeed ==
  /\ [][InstallSkipsWaiting =>
          install.stored /\ ~install.failed /\ SeededByInstall]_vars
  /\ [](activate.pc = "idle" /\ skipped => install.stored /\ SeededByInstall)
  /\ [](activate.pc = "idle" /\ install.failed => ~skipped)

\* install has stored the seed assets and called skipWaiting, before activate
C19_Witness ==
  /\ skipped
  /\ install.pc = "done"
  /\ install.stored
  /\ SeededByInstall
  /\ activate.pc = "idle"


\* whether the seed cache exists, and its entries
SeedCache(cs) ==
  IF CACHE_NAME \in Names(cs)
  THEN <<TRUE, EntriesOf(cs, CACHE_NAME)>>
  ELSE <<FALSE, NoEntries>>

\* a step of the fetch listener or of its runtime-cache write
FetchStep == fetches' # fetches /\ activate' = activate /\ clear' = clear

\* C20: once install's addAll has stored the seed assets, every seed URL has
\* an entry in the seed cache in every state in which no CLEAR_CACHE message
\* has been handled, whatever activate, fetch interception, sync and Cache
\* Refresh have done; and no step of the fetch listener creates, deletes or
\* changes the seed cache
C20_SeedPersistence ==
  /\ [](install.stored /\ clear.pc = "idle" => Seeded)
  /\ [][FetchStep => SeedCache(caches') = SeedCache(caches)]_vars

\* after install, an activate that deleted stale namespaces, a refresh that
\* overwrote a seed entry and a fetch stored in runtime-cache
C20_Witness ==
  /\ install.stored
  /\ clear.pc = "idle"
  /\ activate.claimed
  /\ activate.snapshot \cap StaleNames # {}
  /\ refresh.pc = "done"
  /\ refresh.last = "updated"
  /\ \E s \in FetchSlots : StoredLive(s)
  /\ Seeded

=============================================================================
